---- MODULE Spec2Model ----
(***************************************************************************)
(* docker-discord-relay (src/index.mjs): the per-message pipeline that     *)
(* classifies a Discord message, assembles identity and context, builds    *)
(* the payload and POSTs it to the webhook with bounded retry.             *)
(*                                                                         *)
(* Strings are sequences of one-character strings, so that startsWith,     *)
(* slice, trim, split and the mention regex are computed, not assumed.     *)
(***************************************************************************)
EXTENDS Integers, Sequences, FiniteSets, TLC

\* ------------------------------------------------------------------ bounds
MaxEvents == 2
MaxRetriesBound == 4
MaxPieces == 3
MaxPrior == 21

\* ------------------------------------------------- constants of the program
BackoffStepMs == 2000
BackoffCapMs == 8000
ContextCap == 20
DefaultMaxRetries == 3

\* ---------------------------------------------------------------- strings
Null == << "<null>" >>

WhiteSpace == {" ", "\n"}

IsSpace(c) == c \in WhiteSpace

Min(a, b) == IF a <= b THEN a ELSE b

\* String.prototype.startsWith
StartsWith(s, p) == Len(p) <= Len(s) /\ SubSeq(s, 1, Len(p)) = p

\* String.prototype.slice(n), n >= 0
Slice(s, n) == SubSeq(s, Min(n, Len(s)) + 1, Len(s))

\* number of leading / trailing whitespace characters
RECURSIVE LeadingSpaces(_)
LeadingSpaces(s) ==
  IF s = <<>> \/ ~IsSpace(Head(s)) THEN 0 ELSE 1 + LeadingSpaces(Tail(s))

RECURSIVE TrailingSpaces(_)
TrailingSpaces(s) ==
  IF s = <<>> \/ ~IsSpace(s[Len(s)]) THEN 0
  ELSE 1 + TrailingSpaces(SubSeq(s, 1, Len(s) - 1))

\* String.prototype.trim
Trim(s) ==
  LET a == LeadingSpaces(s)
  IN  IF a = Len(s) THEN <<>> ELSE SubSeq(s, a + 1, Len(s) - TrailingSpaces(s))

\* String.prototype.split(/\s+/): the pieces between maximal whitespace runs;
\* a run at either end leaves an empty piece there, the empty string gives [""].
RECURSIVE SplitFrom(_, _)
SplitFrom(s, cur) ==
  IF s = <<>> THEN << cur >>
  ELSE IF IsSpace(Head(s))
       THEN << cur >> \o SplitFrom(SubSeq(s, LeadingSpaces(s) + 1, Len(s)), <<>>)
       ELSE SplitFrom(Tail(s), Append(cur, Head(s)))

SplitWs(s) == SplitFrom(s, <<>>)

\* ------------------------------------------------------- the Discord world
SelfId == << "7" >>
HumanId == << "8" >>
OtherHumanId == << "6" >>
OtherBotId == << "9" >>
GuildId == << "5" >>
ChanA == << "4", "1" >>
ChanB == << "4", "2" >>
ChanThread == << "4", "3" >>
ChanDM == << "4", "4" >>
SHARED_SECRET == << "s" >>
N8N_WEBHOOK_URL == << "u" >>
NoRef == 0

\* User objects as discord.js exposes them on m.author
User(id, name, isBot) ==
  [id |-> id, username |-> name, globalName |-> Null, discriminator |-> << "0" >>,
   bot |-> isBot]

Human == User(HumanId, << "h" >>, FALSE)
OtherHuman == User(OtherHumanId, << "g" >>, FALSE)
OtherBot == User(OtherBotId, << "b" >>, TRUE)
SelfUser == User(SelfId, << "r" >>, TRUE)

\* Guild member records (m.guild.members), keyed by user id
Member(id) ==
  IF id = HumanId
  THEN [displayName |-> << "H" >>, roles |-> << [id |-> << "3" >>, name |-> << "m" >>] >>]
  ELSE [displayName |-> Null, roles |-> << >>]

\* Where a message can be posted: channel, channel type and guild go together
Places ==
  { [channelId |-> ChanA, channelType |-> "GuildText", guildId |-> GuildId],
    [channelId |-> ChanB, channelType |-> "GuildText", guildId |-> GuildId],
    [channelId |-> ChanThread, channelType |-> "PublicThread", guildId |-> GuildId],
    [channelId |-> ChanDM, channelType |-> "DM", guildId |-> Null] }

ChannelIds == { p.channelId : p \in Places }

\* The two spellings of a user mention in message text
MentionTok(id) == << "<", "@" >> \o id \o << ">" >>

MentionNickTok(id) == << "<", "@", "!" >> \o id \o << ">" >>

ContainsAt(s, t, i) == i + Len(t) - 1 <= Len(s) /\ SubSeq(s, i, i + Len(t) - 1) = t

ContainsMention(s, id) ==
  \E i \in 1..Len(s) : ContainsAt(s, MentionTok(id), i) \/ ContainsAt(s, MentionNickTok(id), i)

\* How a message can relate to an earlier one: no reply, a reply whose target
\* was deleted (no resolved author), a reply to the relay or to someone else,
\* with or without the reply ping that puts the author into mentions.users.
Replies ==
  { [reference |-> NoRef, repliedUser |-> Null, ping |-> FALSE] }
  \cup { [reference |-> 1, repliedUser |-> u, ping |-> p] :
           u \in {Null, SelfId, OtherBotId}, p \in BOOLEAN }

\* The message objects the gateway can hand to the handler, before the
\* platform stamps id and timestamp. mentions.users is computed by the
\* platform from the text and the reply ping.
MsgShapes(authors, contents, places, replies, cached, dts) ==
  { [author |-> a, content |-> c,
     channelId |-> p.channelId, channelType |-> p.channelType, guildId |-> p.guildId,
     reference |-> r.reference, repliedUser |-> r.repliedUser,
     mentionsUsers |-> { u \in {SelfId, OtherBotId} : ContainsMention(c, u) }
                       \cup (IF r.ping /\ r.repliedUser # Null THEN {r.repliedUser} ELSE {}),
     memberCached |-> k, dt |-> d, id |-> 0, createdTimestamp |-> 0,
     fault |-> "none"] :
    a \in authors, c \in contents, p \in places, r \in replies, k \in cached, d \in dts }

\* Message objects on which a property read of the handler throws TypeError:
\* `author` undefined fails m.author.bot (line 157), `attachments` undefined
\* fails m.attachments.values() while the payload is built (lines 183, 218).
Faults == {"author", "attachments"}

Malformed(shapes, faults) ==
  { [s EXCEPT !.fault = f] : s \in shapes, f \in faults }

NoMsg == [id |-> 0]
NoPayload == [event_type |-> "none"]
NoIdentity == [user_id |-> Null]

\* ---------------------------------------------------------------- state
VARIABLES
  ALLOWED_CHANNELS,       \* parsed allow-list (sequence of channel ids)
  COMMAND_PREFIX,
  MAX_RETRIES,
  CHAT_TRIGGERS,          \* parsed trigger list, as a set
  CHAT_CONTEXT_LAST_N,
  FETCH_MEMBER_PROFILE,
  clientUser,             \* client.user: Null until the gateway is ready
  exited,                 \* process.exit was called
  closed,                 \* what shutdown closed before exiting, in order
  quota,                  \* how many messages this run observes
  channels,               \* platform side: channel id -> messages, oldest first
  msg,                    \* handler invocation e -> its message m
  pc,                     \* where invocation e stands
  pending,                \* the fetches invocation e awaits
  identity,               \* resolved getIdentity result of e
  context,                \* resolved buildContext result of e
  payload,                \* the payload object of e
  attempt,                \* postWithRetry's attempt
  lastErr,                \* postWithRetry's lastErr
  posts,                  \* the POST requests issued for e, in order
  waits,                  \* the backoff delays taken for e, in order
  outcome                 \* how the invocation ended

cfgVars == << ALLOWED_CHANNELS, COMMAND_PREFIX, MAX_RETRIES, CHAT_TRIGGERS,
              CHAT_CONTEXT_LAST_N, FETCH_MEMBER_PROFILE, quota >>

taskVars == << msg, pc, pending, identity, context, payload, attempt, lastErr,
               posts, waits, outcome >>

vars == << cfgVars, clientUser, exited, closed, channels, taskVars >>

Events == 1..MaxEvents

\* --------------------------------------------------------- configuration
\* (process.env.X || '').split(',').map(trim).filter(Boolean): the items of
\* the comma-split value, blanks dropped. An unset or empty value splits
\* into one blank item.
ParseList(raw) == SelectSeq(raw, LAMBDA x : x # << >>)

SeqsUpTo(S, n) == UNION { [1..k -> S] : k \in 0..n }

Range(f) == { f[i] : i \in DOMAIN f }

AllTriggers == {"ALL", "DM", "MENTION", "REPLY"}

DefaultTriggers == {"MENTION", "DM", "REPLY"}

\* A message that was posted before the relay connected: authors alternate
\* between a human and the relay's own replies, two messages per timestamp.
PriorMsg(i) ==
  [author |-> IF i % 2 = 1 THEN Human ELSE SelfUser, content |-> << "a" >>,
   channelId |-> ChanA, channelType |-> "GuildText", guildId |-> GuildId,
   reference |-> IF i % 2 = 1 THEN NoRef ELSE i - 1,
   repliedUser |-> IF i % 2 = 1 THEN Null ELSE HumanId,
   mentionsUsers |-> {}, memberCached |-> TRUE, dt |-> 0,
   id |-> i, createdTimestamp |-> (i + 1) \div 2]

History(k) == [i \in 1..k |-> PriorMsg(i)]

\* The state after the module body has run: configuration parsed, client
\* constructed but not yet logged in, no message handled.
InitWith(allowRaws, prefixes, retries, triggers, ns, profile, quotas, priors) ==
  /\ \E raw \in allowRaws : ALLOWED_CHANNELS = ParseList(raw)
  /\ \E k \in priors :
        channels = [c \in ChannelIds |-> IF c = ChanA THEN History(k) ELSE << >>]
  /\ COMMAND_PREFIX \in prefixes
  /\ MAX_RETRIES \in retries
  /\ CHAT_TRIGGERS \in triggers
  /\ CHAT_CONTEXT_LAST_N \in ns
  /\ FETCH_MEMBER_PROFILE \in profile
  /\ quota \in quotas
  /\ clientUser = Null
  /\ exited = FALSE
  /\ closed = << >>
  /\ msg = [e \in Events |-> NoMsg]
  /\ pc = [e \in Events |-> "idle"]
  /\ pending = [e \in Events |-> {}]
  /\ identity = [e \in Events |-> NoIdentity]
  /\ context = [e \in Events |-> << >>]
  /\ payload = [e \in Events |-> NoPayload]
  /\ attempt = [e \in Events |-> 0]
  /\ lastErr = [e \in Events |-> "none"]
  /\ posts = [e \in Events |-> << >>]
  /\ waits = [e \in Events |-> << >>]
  /\ outcome = [e \in Events |-> "None"]

\* ------------------------------------------------------- pure functions
\* getIdentity, lines 52-58: the base block from m.author
BaseIdentity(m) ==
  [user_id |-> m.author.id, username |-> m.author.username,
   global_name |-> m.author.globalName, discriminator |-> m.author.discriminator,
   is_bot |-> (m.author.bot = TRUE)]

WithProfile(base, displayName, roles) ==
  [user_id |-> base.user_id, username |-> base.username,
   global_name |-> base.global_name, discriminator |-> base.discriminator,
   is_bot |-> base.is_bot, display_name |-> displayName, roles |-> roles]

\* (mutant) the fallback returns the base block without display_name, roles
FallbackIdentityBaseOnly(m) == BaseIdentity(m)

\* lines 61 and 73: enrichment skipped or failed
FallbackIdentity(m)== WithProfile(BaseIdentity(m), Null, << >>)

\* lines 66-71: enrichment from a member record
EnrichedIdentity(m, member) ==
  WithProfile(BaseIdentity(m), member.displayName,
              [i \in DOMAIN member.roles |->
                 [id |-> member.roles[i].id, name |-> member.roles[i].name]])

\* getIdentity reaches `await m.guild.members.fetch(...)` only when enrichment
\* is on, the message has a guild and the member is not in the cache.
NeedsMemberFetch(m) == FETCH_MEMBER_PROFILE /\ m.guildId # Null /\ ~m.memberCached

\* getIdentity's result on the paths that need no fetch
IdentityNoFetch(m) ==
  IF ~FETCH_MEMBER_PROFILE \/ m.guildId = Null
  THEN FallbackIdentity(m)
  ELSE EnrichedIdentity(m, Member(m.author.id))

\* (mutant) convo_key built without the channel segment
makeConversationKeysNoChannel(m) ==
  LET guildKey == IF m.guildId # Null /\ m.guildId # << >> THEN m.guildId ELSE << "d", "m" >>
  IN  [user_key |-> guildKey \o << ":" >> \o m.author.id,
       convo_key |-> guildKey \o << ":" >> \o m.author.id]

makeConversationKeys(m) ==
  LET guildKey == IF m.guildId # Null /\ m.guildId # << >> THEN m.guildId ELSE << "d", "m" >>
  IN  [user_key |-> guildKey \o << ":" >> \o m.author.id,
       convo_key |-> guildKey \o << ":" >> \o m.channelId \o << ":" >> \o m.author.id]

\* (mutant) the `!` before ALLOWED_CHANNELS.length is missing
isAllowedChannelNoNegation(m) ==
  Len(ALLOWED_CHANNELS) # 0 \/ m.channelId \in Range(ALLOWED_CHANNELS)

isAllowedChannel(m) ==
  Len(ALLOWED_CHANNELS) = 0 \/ m.channelId \in Range(ALLOWED_CHANNELS)

isDMBased(m) == m.channelType = "DM"

isThread(m) == m.channelType = "PublicThread"

\* (mutant) the `&& msg.guildId === null` conjunct is missing
isDMAnyNonThread(m) == isDMBased(m) \/ isThread(m) = FALSE

isDM(m) == isDMBased(m) \/ (isThread(m) = FALSE /\ m.guildId = Null)

mentionsBot(m) == clientUser # Null /\ clientUser \in m.mentionsUsers

isReplyToBot(m) ==
  /\ m.reference # NoRef
  /\ m.repliedUser # Null
  /\ clientUser # Null
  /\ m.repliedUser = clientUser

\* (mutant) the REPLY trigger is not evaluated
shouldTreatAsChatNoReply(m) ==
  IF "ALL" \in CHAT_TRIGGERS THEN TRUE
  ELSE IF "DM" \in CHAT_TRIGGERS /\ isDM(m) THEN TRUE
  ELSE IF "MENTION" \in CHAT_TRIGGERS /\ mentionsBot(m) THEN TRUE
  ELSE FALSE

shouldTreatAsChat(m) ==
  IF "ALL" \in CHAT_TRIGGERS THEN TRUE
  ELSE IF "DM" \in CHAT_TRIGGERS /\ isDM(m) THEN TRUE
  ELSE IF "MENTION" \in CHAT_TRIGGERS /\ mentionsBot(m) THEN TRUE
  ELSE IF "REPLY" \in CHAT_TRIGGERS /\ isReplyToBot(m) THEN TRUE
  ELSE FALSE

isCommand(m) == StartsWith(m.content, COMMAND_PREFIX)

\* (mutant) the trim() before split is missing
ParseCommandNoTrim(content) ==
  LET parts == SplitWs(Slice(content, Len(COMMAND_PREFIX)))
  IN  [cmd |-> Head(parts), args |-> Tail(parts)]

\* (mutant) empty pieces are filtered out of the split, so a bare prefix
\* leaves no piece and cmd is undefined
ParseCommandDropEmpty(content) ==
  LET parts == SelectSeq(SplitWs(Trim(Slice(content, Len(COMMAND_PREFIX)))),
                         LAMBDA x : x # << >>)
  IN  IF parts = << >> THEN [cmd |-> Null, args |-> << >>]
      ELSE [cmd |-> Head(parts), args |-> Tail(parts)]

\* line 164: [cmd, ...args] = content.slice(prefix.length).trim().split(/\s+/)
ParseCommand(content) ==
  LET parts == SplitWs(Trim(Slice(content, Len(COMMAND_PREFIX))))
  IN  [cmd |-> Head(parts), args |-> Tail(parts)]

\* (mutant) the pattern without its trailing \s*
MentionMatchLenTokenOnly(s, id) ==
  IF StartsWith(s, MentionNickTok(id)) THEN Len(MentionNickTok(id))
  ELSE IF StartsWith(s, MentionTok(id)) THEN Len(MentionTok(id))
  ELSE 0

\* lines 195-196: replace(/^<@!?ID>\s*/i, '') - the length of the match at
\* the start of s, 0 when the pattern does not match there
MentionMatchLen(s, id) ==
  LET tok == IF StartsWith(s, MentionNickTok(id)) THEN Len(MentionNickTok(id))
             ELSE IF StartsWith(s, MentionTok(id)) THEN Len(MentionTok(id))
             ELSE 0
  IN  IF tok = 0 THEN 0 ELSE tok + LeadingSpaces(Slice(s, tok))

\* lines 193-197
CleanContent(m) ==
  IF mentionsBot(m) /\ clientUser # Null
  THEN Slice(m.content, MentionMatchLen(m.content, clientUser))
  ELSE m.content

\* (mutant) true exponential backoff, 2000 * 2^n capped
BackoffExponential(n) == Min(BackoffStepMs * 2 ^ n, BackoffCapMs)

\* line 142
Backoff(n) == Min(BackoffStepMs * (n + 1), BackoffCapMs)

\* ------------------------------------------------------ context (114-132)
\* msg.channel.messages.fetch({ limit }): the `limit` most recent messages of
\* the channel as it stands when the platform serves the request (the first
\* `cut` messages of the log), newest first.
FetchMessages(log, cut, limit) ==
  [i \in 1..Min(limit, cut) |-> log[cut - i + 1]]

\* Array.prototype.sort((a, b) => a.createdTimestamp - b.createdTimestamp):
\* stable, so equal timestamps keep the order they were fetched in.
RECURSIVE InsertByTs(_, _)
InsertByTs(sorted, x) ==
  IF sorted = << >> THEN << x >>
  ELSE IF Head(sorted).createdTimestamp <= x.createdTimestamp
       THEN << Head(sorted) >> \o InsertByTs(Tail(sorted), x)
       ELSE << x >> \o sorted

RECURSIVE SortByTs(_)
SortByTs(s) ==
  IF s = << >> THEN << >>
  ELSE InsertByTs(SortByTs(SubSeq(s, 1, Len(s) - 1)), s[Len(s)])

ContextItem(x) ==
  [id |-> x.id,
   author |-> [id |-> x.author.id, username |-> x.author.username, isBot |-> x.author.bot],
   content |-> x.content, timestamp |-> x.createdTimestamp,
   isReply |-> (x.reference # NoRef)]

ContextLimit == Min(CHAT_CONTEXT_LAST_N, ContextCap)

\* buildContext's value once the fetch has answered
ContextOf(fetched) ==
  LET sorted == SortByTs(fetched)
  IN  [i \in DOMAIN sorted |-> ContextItem(sorted[i])]

\* ------------------------------------------------------ payload (168-221)
Headers == [secret |-> SHARED_SECRET, contentType |-> "application/json"]

CommandPayload(m, ident) ==
  LET parsed == ParseCommand(m.content)
      keys == makeConversationKeys(m)
  IN  [event_type |-> "command", command |-> parsed.cmd, args |-> parsed.args,
       content |-> m.content, channel_id |-> m.channelId, guild_id |-> m.guildId,
       user_key |-> keys.user_key, convo_key |-> keys.convo_key,
       identity |-> ident, message_id |-> m.id,
       in_thread |-> isThread(m),
       thread_id |-> IF isThread(m) THEN m.channelId ELSE Null,
       message_reference |-> m.reference, timestamp |-> m.createdTimestamp]

ChatPayload(m, ident, ctx) ==
  LET keys == makeConversationKeys(m)
  IN  [event_type |-> "chat", content |-> m.content, cleaned_content |-> CleanContent(m),
       channel_id |-> m.channelId, guild_id |-> m.guildId,
       user_key |-> keys.user_key, convo_key |-> keys.convo_key,
       identity |-> ident, message_id |-> m.id,
       in_thread |-> isThread(m),
       thread_id |-> IF isThread(m) THEN m.channelId ELSE Null,
       message_reference |-> m.reference,
       mentioned_bot |-> mentionsBot(m), is_dm |-> isDM(m),
       timestamp |-> m.createdTimestamp, context |-> ctx]

BuildPayload(m, ident, ctx) ==
  IF isCommand(m) THEN CommandPayload(m, ident) ELSE ChatPayload(m, ident, ctx)

\* One axios.post(url, data, { headers, timeout }) request
Request(data) == [url |-> N8N_WEBHOOK_URL, data |-> data, headers |-> Headers,
                  status |-> "inflight"]

\* --------------------------------------------------------------- actions
AllMessages == UNION { Range(channels[c]) : c \in ChannelIds }

\* The platform stamps a new message with the next id and a timestamp that
\* is not below any earlier one.
Stamp(shape) ==
  LET lastTs == IF AllMessages = {} THEN 0
                ELSE CHOOSE t \in { x.createdTimestamp : x \in AllMessages } :
                       \A x \in AllMessages : x.createdTimestamp <= t
  IN  [shape EXCEPT !.id = Cardinality(AllMessages) + 1,
                    !.createdTimestamp = lastTs + shape.dt]

\* (mutant) the bot check of line 157 is missing
ClassifyNoBotCheck(m) ==
  IF ~isAllowedChannel(m) THEN "Ignore"
  ELSE IF isCommand(m) THEN "Command"
  ELSE IF shouldTreatAsChat(m) THEN "Chat"
  ELSE "Ignore"

\* (mutant) the chat triggers are evaluated before the command prefix
ClassifyChatFirst(m) ==
  IF m.author.bot THEN "Ignore"
  ELSE IF ~isAllowedChannel(m) THEN "Ignore"
  ELSE IF shouldTreatAsChat(m) THEN "Chat"
  ELSE IF isCommand(m) THEN "Command"
  ELSE "Ignore"

\* Classification by the synchronous head of the handler (lines 157-192)
Classify(m) ==
  IF m.author.bot THEN "Ignore"
  ELSE IF ~isAllowedChannel(m) THEN "Ignore"
  ELSE IF isCommand(m) THEN "Command"
  ELSE IF shouldTreatAsChat(m) THEN "Chat"
  ELSE "Ignore"

\* The fetches an invocation has to await before it can build its payload:
\* getIdentity's member fetch, and for chat buildContext's history fetch.
FetchesOf(m) ==
  (IF NeedsMemberFetch(m) THEN {"identity"} ELSE {})
  \cup (IF Classify(m) = "Chat" /\ CHAT_CONTEXT_LAST_N > 0 THEN {"context"} ELSE {})

\* (mutant) the loop condition off by one: `attempt < retries`
MayAttemptOffByOne(n) == n < MAX_RETRIES

\* The loop condition of postWithRetry (line 136)
MayAttempt(n) == n <= MAX_RETRIES

\* (mutant) no try/catch around the handler body: the rejection is unhandled
\* and the runtime ends the process, every running invocation with it
HandlerCatchUnhandled(e) ==
  /\ pc' = [f \in Events |-> IF f = e \/ pc[f] # "idle" THEN "done" ELSE pc[f]]
  /\ outcome' = [f \in Events |->
                   IF f = e THEN "HandlerError"
                   ELSE IF pc[f] \notin {"idle", "done"} THEN "Crashed" ELSE outcome[f]]

\* The catch of the handler (lines 226-228): the error is logged and the
\* invocation ends; nothing else is touched.
HandlerCatch(e) ==
  /\ pc' = [pc EXCEPT ![e] = "done"]
  /\ outcome' = [outcome EXCEPT ![e] = "HandlerError"]

\* The handler continues after `await`: while a fetch is outstanding it stays
\* suspended; once identity and context are there it builds the payload and
\* postWithRetry issues the first POST (lines 165-187, 199-223, 134-138).
\* An exception thrown while the payload is built lands in the handler's
\* catch (lines 226-228): logged, nothing posted.
Proceed(e, m, ident, ctx, pend) ==
  /\ identity' = [identity EXCEPT ![e] = ident]
  /\ context' = [context EXCEPT ![e] = ctx]
  /\ pending' = [pending EXCEPT ![e] = pend]
  /\ IF pend # {}
     THEN /\ pc' = [pc EXCEPT ![e] = "await"]
          /\ UNCHANGED << payload, posts, outcome >>
     ELSE IF m.fault = "attachments"
     THEN /\ HandlerCatch(e)
          /\ UNCHANGED << payload, posts >>
     ELSE /\ payload' = [payload EXCEPT ![e] = BuildPayload(m, ident, ctx)]
          /\ IF MayAttempt(0)
             THEN /\ pc' = [pc EXCEPT ![e] = "posting"]
                  /\ posts' = [posts EXCEPT
                                 ![e] = << Request(BuildPayload(m, ident, ctx)) >>]
                  /\ UNCHANGED outcome
             ELSE /\ pc' = [pc EXCEPT ![e] = "done"]
                  /\ outcome' = [outcome EXCEPT ![e] = "PermanentFailure"]
                  /\ UNCHANGED posts
  /\ UNCHANGED << attempt, lastErr, waits >>

\* client.login succeeded: client.user is set (lines 151-153, 240)
ClientReady ==
  /\ ~exited
  /\ clientUser = Null
  /\ clientUser' = SelfId
  /\ UNCHANGED << cfgVars, exited, closed, channels, taskVars >>

\* client.on(Events.MessageCreate, ...) up to its first suspension
MessageCreate(e, shapes) ==
  /\ ~exited
  /\ clientUser # Null
  /\ e <= quota
  /\ pc[e] = "idle"
  /\ \A f \in Events : f < e => pc[f] # "idle"
  /\ \E shape \in shapes :
       LET m == Stamp(shape)
       IN  /\ channels' = [channels EXCEPT
                             ![m.channelId] = Append(@, [m EXCEPT !.fault = "none"])]
           /\ msg' = [msg EXCEPT ![e] = m]
           /\ IF m.fault = "author"
              THEN /\ HandlerCatch(e)
                   /\ UNCHANGED << pending, identity, context, payload, attempt,
                                   lastErr, posts, waits >>
              ELSE IF Classify(m) = "Ignore"
              THEN /\ pc' = [pc EXCEPT ![e] = "done"]
                   /\ outcome' = [outcome EXCEPT ![e] = "Ignore"]
                   /\ UNCHANGED << pending, identity, context, payload, attempt,
                                   lastErr, posts, waits >>
              ELSE Proceed(e, m,
                           IF NeedsMemberFetch(m) THEN NoIdentity ELSE IdentityNoFetch(m),
                           << >>, FetchesOf(m))
  /\ UNCHANGED << cfgVars, clientUser, exited, closed >>

\* m.guild.members.fetch answers or throws (lines 63-74)
MemberFetchDone(e, ok) ==
  /\ ~exited
  /\ pc[e] = "await"
  /\ "identity" \in pending[e]
  /\ Proceed(e, msg[e],
             IF ok THEN EnrichedIdentity(msg[e], Member(msg[e].author.id))
             ELSE FallbackIdentity(msg[e]),
             context[e], pending[e] \ {"identity"})
  /\ UNCHANGED << cfgVars, clientUser, exited, closed, channels, msg >>

\* Position of message m in the log of its channel
PosInLog(m) ==
  CHOOSE i \in 1..Len(channels[m.channelId]) : channels[m.channelId][i].id = m.id

\* (mutant) buildContext without its try/catch: a failed history fetch
\* rejects Promise.all and the handler's catch drops the event
HistoryFetchDoneRaises(e, ok) ==
  /\ ~exited
  /\ pc[e] = "await"
  /\ "context" \in pending[e]
  /\ IF ok
     THEN \E cut \in PosInLog(msg[e])..Len(channels[msg[e].channelId]) :
            Proceed(e, msg[e], identity[e],
                    ContextOf(FetchMessages(channels[msg[e].channelId], cut, ContextLimit)),
                    pending[e] \ {"context"})
     ELSE /\ HandlerCatch(e)
          /\ pending' = [pending EXCEPT ![e] = {}]
          /\ UNCHANGED << identity, context, payload, posts, attempt, lastErr, waits >>
  /\ UNCHANGED << cfgVars, clientUser, exited, closed, channels, msg >>

\* msg.channel.messages.fetch answers or throws (lines 116-131). The request
\* is served at some moment after the triggering message was posted: `cut`
\* is the length of the channel log at that moment.
HistoryFetchDone(e, ok) ==
  /\ ~exited
  /\ pc[e] = "await"
  /\ "context" \in pending[e]
  /\ \E cut \in PosInLog(msg[e])..Len(channels[msg[e].channelId]) :
       Proceed(e, msg[e], identity[e],
               IF ok
               THEN ContextOf(FetchMessages(channels[msg[e].channelId], cut, ContextLimit))
               ELSE << >>,
               pending[e] \ {"context"})
  /\ UNCHANGED << cfgVars, clientUser, exited, closed, channels, msg >>

SetLastStatus(reqs, st) == [reqs EXCEPT ![Len(reqs)].status = st]

\* (mutant) the `return` after a successful post is missing: the loop goes on
PostOkNoReturn(e) ==
  /\ ~exited
  /\ pc[e] = "posting"
  /\ posts' = [posts EXCEPT ![e] = SetLastStatus(@, "2xx")]
  /\ pc' = [pc EXCEPT ![e] = "backoff"]
  /\ UNCHANGED << cfgVars, clientUser, exited, closed, channels, msg, pending, identity,
                  context, payload, attempt, lastErr, waits, outcome >>

\* (mutant) deliveries serialised: a response is processed only once every
\* earlier message has finished
PostOkInOrder(e) ==
  /\ ~exited
  /\ pc[e] = "posting"
  /\ \A f \in Events : f < e => pc[f] = "done"
  /\ posts' = [posts EXCEPT ![e] = SetLastStatus(@, "2xx")]
  /\ pc' = [pc EXCEPT ![e] = "done"]
  /\ outcome' = [outcome EXCEPT ![e] = "Delivered"]
  /\ UNCHANGED << cfgVars, clientUser, exited, closed, channels, msg, pending, identity,
                  context, payload, attempt, lastErr, waits >>

\* axios.post resolved with a 2xx: postWithRetry returns (lines 138-139)
PostOk(e) ==
  /\ ~exited
  /\ pc[e] = "posting"
  /\ posts' = [posts EXCEPT ![e] = SetLastStatus(@, "2xx")]
  /\ pc' = [pc EXCEPT ![e] = "done"]
  /\ outcome' = [outcome EXCEPT ![e] = "Delivered"]
  /\ UNCHANGED << cfgVars, clientUser, exited, closed, channels, msg, pending, identity,
                  context, payload, attempt, lastErr, waits >>

\* A rejected axios.post either carries a non-2xx response or carries none
\* (network error, or the 10 s timeout)
FailureKinds == {"non2xx", "noresponse"}

\* (mutant) the catch block does not await the timer: the next attempt is
\* issued at once, with no backoff in between
PostFailsRetryAtOnce(e, kind) ==
  /\ ~exited
  /\ pc[e] = "posting"
  /\ lastErr' = [lastErr EXCEPT ![e] = kind]
  /\ attempt' = [attempt EXCEPT ![e] = @ + 1]
  /\ IF MayAttempt(attempt[e] + 1)
     THEN /\ posts' = [posts EXCEPT
                         ![e] = Append(SetLastStatus(@, "failed"), Request(payload[e]))]
          /\ UNCHANGED << pc, outcome >>
     ELSE /\ posts' = [posts EXCEPT ![e] = SetLastStatus(@, "failed")]
          /\ pc' = [pc EXCEPT ![e] = "done"]
          /\ outcome' = [outcome EXCEPT ![e] = "PermanentFailure"]
  /\ UNCHANGED << cfgVars, clientUser, exited, closed, channels, msg, pending, identity,
                  context, payload, waits >>

\* axios.post rejected: the catch block records the error and starts the
\* backoff timer (lines 140-144)
PostFails(e, kind) ==
  /\ ~exited
  /\ pc[e] = "posting"
  /\ posts' = [posts EXCEPT ![e] = SetLastStatus(@, "failed")]
  /\ lastErr' = [lastErr EXCEPT ![e] = kind]
  /\ waits' = [waits EXCEPT ![e] = Append(@, Backoff(attempt[e]))]
  /\ pc' = [pc EXCEPT ![e] = "backoff"]
  /\ UNCHANGED << cfgVars, clientUser, exited, closed, channels, msg, pending, identity,
                  context, payload, attempt, outcome >>

\* (mutant) `attempt` is one module-level counter shared by all invocations
BackoffElapsedSharedAttempt(e) ==
  /\ ~exited
  /\ pc[e] = "backoff"
  /\ attempt' = [f \in Events |-> attempt[f] + 1]
  /\ IF MayAttempt(attempt[e] + 1)
     THEN /\ posts' = [posts EXCEPT ![e] = Append(@, Request(payload[e]))]
          /\ pc' = [pc EXCEPT ![e] = "posting"]
          /\ UNCHANGED outcome
     ELSE /\ pc' = [pc EXCEPT ![e] = "done"]
          /\ outcome' = [outcome EXCEPT ![e] = "PermanentFailure"]
          /\ UNCHANGED posts
  /\ UNCHANGED << cfgVars, clientUser, exited, closed, channels, msg, pending, identity,
                  context, payload, lastErr, waits >>

\* (mutant) a retry sends a payload whose timestamp was refreshed
BackoffElapsedRestamped(e) ==
  /\ ~exited
  /\ pc[e] = "backoff"
  /\ attempt' = [attempt EXCEPT ![e] = @ + 1]
  /\ IF MayAttempt(attempt[e] + 1)
     THEN /\ posts' = [posts EXCEPT
                         ![e] = Append(@, Request([payload[e] EXCEPT !.timestamp = @ + 1]))]
          /\ pc' = [pc EXCEPT ![e] = "posting"]
          /\ UNCHANGED outcome
     ELSE /\ pc' = [pc EXCEPT ![e] = "done"]
          /\ outcome' = [outcome EXCEPT ![e] = "PermanentFailure"]
          /\ UNCHANGED posts
  /\ UNCHANGED << cfgVars, clientUser, exited, closed, channels, msg, pending, identity,
                  context, payload, lastErr, waits >>

\* (mutant) the backoff promise is never resolved: the loop hangs in its wait
BackoffNeverResolves(e) ==
  /\ ~exited
  /\ pc[e] = "backoff"
  /\ UNCHANGED vars

\* (mutant) timers outlive shutdown: pending retries are drained after exit
BackoffElapsedAfterExit(e) ==
  /\ pc[e] = "backoff"
  /\ attempt' = [attempt EXCEPT ![e] = @ + 1]
  /\ IF MayAttempt(attempt[e] + 1)
     THEN /\ posts' = [posts EXCEPT ![e] = Append(@, Request(payload[e]))]
          /\ pc' = [pc EXCEPT ![e] = "posting"]
          /\ UNCHANGED outcome
     ELSE /\ pc' = [pc EXCEPT ![e] = "done"]
          /\ outcome' = [outcome EXCEPT ![e] = "PermanentFailure"]
          /\ UNCHANGED posts
  /\ UNCHANGED << cfgVars, clientUser, exited, closed, channels, msg, pending, identity,
                  context, payload, lastErr, waits >>

\* The timer fired: attempt++, then the loop either posts again or falls
\* through to the permanent-failure log (lines 145-148)
BackoffElapsed(e) ==
  /\ ~exited
  /\ pc[e] = "backoff"
  /\ attempt' = [attempt EXCEPT ![e] = @ + 1]
  /\ IF MayAttempt(attempt[e] + 1)
     THEN /\ posts' = [posts EXCEPT ![e] = Append(@, Request(payload[e]))]
          /\ pc' = [pc EXCEPT ![e] = "posting"]
          /\ UNCHANGED outcome
     ELSE /\ pc' = [pc EXCEPT ![e] = "done"]
          /\ outcome' = [outcome EXCEPT ![e] = "PermanentFailure"]
          /\ UNCHANGED posts
  /\ UNCHANGED << cfgVars, clientUser, exited, closed, channels, msg, pending, identity,
                  context, payload, lastErr, waits >>

\* SIGINT / SIGTERM: server.close, client.destroy, process.exit (232-238).
\* process.exit ends the event loop: no timer or response callback of any
\* invocation runs afterwards, so every other action requires ~exited.
shutdown ==
  /\ ~exited
  /\ closed' = closed \o << "health server", "discord client" >>
  /\ exited' = TRUE
  /\ UNCHANGED << cfgVars, clientUser, channels, taskVars >>

NextOn(shapes) ==
  \/ ClientReady
  \/ \E e \in Events : MessageCreate(e, shapes)
  \/ \E e \in Events, ok \in BOOLEAN : MemberFetchDone(e, ok)
  \/ \E e \in Events, ok \in BOOLEAN : HistoryFetchDone(e, ok)
  \/ \E e \in Events : PostOk(e)
  \/ \E e \in Events, kind \in FailureKinds : PostFails(e, kind)
  \/ \E e \in Events : BackoffElapsed(e)
  \/ shutdown

\* ------------------------------------------------------- specifications
Unset == << << >> >>

Bang == << "!" >>

CmdText == << "!", "a" >>

MentionText == MentionTok(SelfId) \o << "a" >>

PlainText == << "a" >>

NoReply == { r \in Replies : r.reference = NoRef }

InChanA == { p \in Places : p.channelId = ChanA }

InDM == { p \in Places : p.channelId = ChanDM }

\* Interleaving: MaxEvents concurrent pipelines with a retry budget of 0 or
\* 1. A human's command in a guild channel (member not cached), a human's
\* direct message, and a bot's command.
FlowShapes ==
  MsgShapes({Human, OtherBot}, {CmdText}, InChanA, NoReply, {FALSE}, {1})
  \cup MsgShapes({Human}, {PlainText}, InDM, NoReply, {FALSE}, {1})

Init ==
  InitWith({Unset}, {Bang}, {0, 1}, {DefaultTriggers}, {1}, {TRUE}, {MaxEvents}, {0})

Next == NextOn(FlowShapes)

Spec == Init /\ [][Next]_vars

\* Delivery of one payload under every retry budget up to MaxRetriesBound.
RetryShapes ==
  MsgShapes({Human, OtherBot}, {CmdText, MentionText}, InChanA, NoReply, {FALSE}, {1})

InitRetry ==
  InitWith({Unset}, {Bang}, 0..MaxRetriesBound, {DefaultTriggers}, {0, 1}, {TRUE}, {1}, {0})

NextRetry == NextOn(RetryShapes)

SpecRetry == InitRetry /\ [][NextRetry]_vars

\* ------------------------------------------------------------- properties
Statuses(e) == [i \in DOMAIN posts[e] |-> posts[e][i].status]

AllFailed(e) == \A i \in DOMAIN posts[e] : posts[e][i].status = "failed"

Successes(e) == { i \in DOMAIN posts[e] : posts[e][i].status = "2xx" }

Entered(e) == pc[e] \in {"posting", "backoff"}
              \/ outcome[e] \in {"Delivered", "PermanentFailure"}

RECURSIVE SumSeq(_)
SumSeq(s) == IF s = << >> THEN 0 ELSE Head(s) + SumSeq(Tail(s))

\* C1: once postWithRetry runs for a command or chat payload it makes at
\* least 1 and at most MAX_RETRIES+1 POST attempts; PermanentFailure is the
\* outcome exactly when MAX_RETRIES+1 attempts were made and all failed ...
C1_State ==
  \A e \in Events :
    /\ Len(posts[e]) <= MAX_RETRIES + 1
    /\ Entered(e) => Len(posts[e]) >= 1
    /\ outcome[e] = "PermanentFailure"
         => pc[e] = "done" /\ Len(posts[e]) = MAX_RETRIES + 1 /\ AllFailed(e)
    /\ (pc[e] = "done" /\ Len(posts[e]) >= 1 /\ AllFailed(e))
         => outcome[e] = "PermanentFailure"

\* ... and after PermanentFailure the payload is dropped: no step adds an
\* attempt for that event or changes its outcome.
C1_Step ==
  \A e \in Events :
    outcome[e] = "PermanentFailure"
      => posts'[e] = posts[e] /\ outcome'[e] = outcome[e] /\ pc'[e] = "done"

C1_BoundedAttempts == [] C1_State /\ [][C1_Step]_vars

C1_Witness ==
  \E e \in Events :
    /\ outcome[e] = "PermanentFailure"
    /\ MAX_RETRIES = MaxRetriesBound
    /\ Len(posts[e]) = MaxRetriesBound + 1

\* C2: a 2xx response ends the sequence as Delivered: it is the last attempt,
\* there is at most one per event, and PermanentFailure is never recorded for
\* an event that had one ...
C2_State ==
  \A e \in Events :
    /\ Cardinality(Successes(e)) <= 1
    /\ Successes(e) # {}
         => /\ Successes(e) = {Len(posts[e])}
            /\ pc[e] = "done"
            /\ outcome[e] = "Delivered"
    /\ outcome[e] = "Delivered" => Successes(e) # {}

\* ... and once Delivered no later POST attempt is made for that payload.
C2_Step ==
  \A e \in Events :
    outcome[e] = "Delivered" => posts'[e] = posts[e] /\ outcome'[e] = "Delivered"

C2_FirstSuccessEnds == [] C2_State /\ [][C2_Step]_vars

C2_Witness ==
  \E e \in Events :
    outcome[e] = "Delivered" /\ Len(posts[e]) >= 2 /\ Successes(e) = {Len(posts[e])}

\* C3: one backoff delay is taken after each failed attempt, and the delay
\* after the attempt with 0-based index i is 2000, 4000, 6000, 8000, 8000,
\* ...: min(2000*(i+1), 8000), non-decreasing, never above 8000; with
\* MAX_RETRIES = 3 a payload failing on attempts 1-3 and succeeding on
\* attempt 4 has one successful POST and waited 12000 ms in all.
C3_Backoff ==
  \A e \in Events :
    /\ Len(waits[e]) = Cardinality({ i \in DOMAIN posts[e] : posts[e][i].status = "failed" })
    /\ \A i \in DOMAIN waits[e] :
         /\ waits[e][i] = (IF i = 1 THEN 2000 ELSE IF i = 2 THEN 4000
                           ELSE IF i = 3 THEN 6000 ELSE 8000)
         /\ waits[e][i] <= 8000
         /\ i > 1 => waits[e][i - 1] <= waits[e][i]
    /\ (MAX_RETRIES = DefaultMaxRetries /\ Statuses(e) = << "failed", "failed", "failed", "2xx" >>)
         => /\ SumSeq(waits[e]) = 12000
            /\ Cardinality(Successes(e)) = 1
            /\ outcome[e] = "Delivered"

C3_Witness ==
  \E e \in Events :
    /\ MAX_RETRIES = DefaultMaxRetries
    /\ Statuses(e) = << "failed", "failed", "failed", "2xx" >>
    /\ waits[e] = << 2000, 4000, 6000 >>

\* the cap bites: the fifth delay would be 10000 uncapped
C3_CapReached == \E e \in Events : Len(waits[e]) = 5 /\ waits[e][5] = 8000

\* Classification of one message: every author kind, place, reply relation,
\* allow-list over two channels and every trigger set.
ClassifyShapes ==
  MsgShapes({Human, OtherBot, SelfUser}, {CmdText, PlainText, MentionText},
            Places, Replies, {FALSE}, {1})

\* ALLOWED_CHANNELS unset, one id, two ids, and a value with a blank item
AllowRaws ==
  { Unset, << ChanA >>, << ChanB >>, << ChanA, ChanB >>, << << >>, ChanB >> }

InitClassify ==
  InitWith(AllowRaws, {Bang}, {0}, SUBSET AllTriggers, {1}, {TRUE}, {1}, {0})

NextClassify == NextOn(ClassifyShapes)

SpecClassify == InitClassify /\ [][NextClassify]_vars

Arrived(e) == pc[e] # "idle"

Ignored(e) == pc[e] = "done" /\ outcome[e] = "Ignore" /\ posts[e] = << >>
              /\ payload[e] = NoPayload

\* C4: a message whose author is a bot is ignored with zero POST attempts,
\* whatever its content, channel, the allow-list and the trigger set.
C4_BotsIgnored ==
  \A e \in Events : (Arrived(e) /\ msg[e].author.bot) => Ignored(e)

C4_Witness ==
  \E e \in Events :
    /\ Arrived(e)
    /\ msg[e].author.bot
    /\ StartsWith(msg[e].content, COMMAND_PREFIX)
    /\ "ALL" \in CHAT_TRIGGERS
    /\ ALLOWED_CHANNELS = << >>
    /\ Ignored(e)

\* The chat-trigger condition, read off the message
TriggerHolds(m) ==
  \/ "ALL" \in CHAT_TRIGGERS
  \/ ("DM" \in CHAT_TRIGGERS /\ m.guildId = Null)
  \/ ("MENTION" \in CHAT_TRIGGERS /\ SelfId \in m.mentionsUsers)
  \/ ("REPLY" \in CHAT_TRIGGERS /\ m.reference # NoRef /\ m.repliedUser = SelfId)

\* C5: with a non-empty allow-list a message from a channel outside it is
\* ignored with zero POST attempts, command prefix or chat trigger
\* notwithstanding; with an empty allow-list no message is ignored for its
\* channel: a non-bot command or triggered chat is relayed from any channel.
C5_AllowList ==
  \A e \in Events :
    Arrived(e) =>
      /\ (ALLOWED_CHANNELS # << >>
          /\ ~(\E i \in DOMAIN ALLOWED_CHANNELS : ALLOWED_CHANNELS[i] = msg[e].channelId))
           => Ignored(e)
      /\ (ALLOWED_CHANNELS = << >> /\ ~msg[e].author.bot
          /\ (StartsWith(msg[e].content, COMMAND_PREFIX) \/ TriggerHolds(msg[e])))
           => outcome[e] # "Ignore"

C5_Witness ==
  \E e \in Events :
    /\ Arrived(e)
    /\ ALLOWED_CHANNELS = << ChanB >>
    /\ msg[e].channelId = ChanA
    /\ ~msg[e].author.bot
    /\ StartsWith(msg[e].content, COMMAND_PREFIX)
    /\ "ALL" \in CHAT_TRIGGERS
    /\ Ignored(e)

Relayed(e, type) ==
  /\ outcome[e] # "Ignore"
  /\ pc[e] # "await" => (payload[e].event_type = type /\ Len(posts[e]) >= 1)

\* C7: a non-bot, allowed-channel, non-command message is relayed as chat if
\* and only if ALL is a trigger, or DM is and the message has no guild, or
\* MENTION is and the mention list holds the relay, or REPLY is and the
\* replied-to author is the relay; otherwise it is ignored with zero POSTs.
C7_ChatTriggers ==
  \A e \in Events :
    (/\ Arrived(e)
     /\ ~msg[e].author.bot
     /\ isAllowedChannel(msg[e])
     /\ ~StartsWith(msg[e].content, COMMAND_PREFIX))
      => IF TriggerHolds(msg[e]) THEN Relayed(e, "chat") ELSE Ignored(e)

\* trigger set {MENTION}: a guild message that only mentions the relay
C7_Witness ==
  \E e \in Events :
    /\ CHAT_TRIGGERS = {"MENTION"}
    /\ Arrived(e)
    /\ msg[e].guildId # Null
    /\ msg[e].reference = NoRef
    /\ msg[e].mentionsUsers = {SelfId}
    /\ payload[e].event_type = "chat"
    /\ Len(posts[e]) = 1

\* C9: user_key = G:author and convo_key = G:channel:author, G the guild id
\* or "dm" without a guild; events with the same (guild, channel, author)
\* get the same keys.
KeyPrefix(p) == IF p.guild_id = Null THEN << "d", "m" >> ELSE p.guild_id

C9_Keys ==
  \A e \in Events :
    payload[e] # NoPayload =>
      /\ payload[e].user_key
           = KeyPrefix(payload[e]) \o << ":" >> \o payload[e].identity.user_id
      /\ payload[e].convo_key
           = KeyPrefix(payload[e]) \o << ":" >> \o payload[e].channel_id
             \o << ":" >> \o payload[e].identity.user_id
      /\ \A f \in Events :
           (/\ payload[f] # NoPayload
            /\ msg[f].guildId = msg[e].guildId
            /\ msg[f].channelId = msg[e].channelId
            /\ msg[f].author.id = msg[e].author.id)
             => /\ payload[f].user_key = payload[e].user_key
                /\ payload[f].convo_key = payload[e].convo_key

\* two payloads of the same triple, one a direct message pair
C9_Witness ==
  \E e, f \in Events :
    /\ e # f
    /\ payload[e] # NoPayload /\ payload[f] # NoPayload
    /\ msg[e].guildId = Null /\ msg[f].guildId = Null
    /\ payload[e].user_key = << "d", "m", ":", "8" >>
    /\ payload[e].convo_key = << "d", "m", ":", "4", "4", ":", "8" >>

\* Text handling of one message: every text of up to MaxPieces lexemes (the
\* prefix character, letters, two kinds of whitespace, the mention tokens),
\* and the example of the specification; every non-command message is chat.
Lexemes ==
  { << "!" >>, << "a" >>, << "b" >>, << " " >>, << "\n" >>,
    MentionTok(SelfId), MentionNickTok(SelfId), MentionTok(OtherBotId) }

RECURSIVE Flatten(_)
Flatten(ss) == IF ss = << >> THEN << >> ELSE Head(ss) \o Flatten(Tail(ss))

PingFooBar == << "!", "p", "i", "n", "g", " ", "f", "o", "o", " ", "b", "a", "r" >>

Texts == { Flatten(ss) : ss \in SeqsUpTo(Lexemes, MaxPieces) } \cup { PingFooBar }

TextShapes ==
  MsgShapes({Human}, Texts, InChanA, NoReply, {TRUE}, {1})
  \cup MsgShapes({Human}, {CmdText}, InChanA, NoReply, {FALSE}, {1})

InitText ==
  InitWith({Unset}, {Bang, << "!", "!" >>}, {0}, {{"ALL"}}, {1}, {TRUE}, {1}, {0})

NextText == NextOn(TextShapes)

SpecText == InitText /\ [][NextText]_vars

\* The whitespace-delimited tokens of s, read off s: a token starts where a
\* non-blank follows the start or a blank, and runs to the next blank.
TokenStarts(s) ==
  { i \in 1..Len(s) : ~IsSpace(s[i]) /\ (i = 1 \/ IsSpace(s[i - 1])) }

TokenEnd(s, i) ==
  CHOOSE j \in i..Len(s) :
    /\ \A k \in i..j : ~IsSpace(s[k])
    /\ j = Len(s) \/ IsSpace(s[j + 1])

NthStart(s, n) ==
  CHOOSE i \in TokenStarts(s) : Cardinality({ j \in TokenStarts(s) : j < i }) = n - 1

NthToken(s, n) == SubSeq(s, NthStart(s, n), TokenEnd(s, NthStart(s, n)))

AfterPrefix(p) == SubSeq(p.content, Len(COMMAND_PREFIX) + 1, Len(p.content))

\* C6: in a command payload `command` is the first whitespace-delimited
\* token of the text after the prefix and `args` the remaining tokens in
\* order; no element of args is empty or holds whitespace; "!ping foo bar"
\* gives command "ping" and args ["foo", "bar"].
C6_CommandTokens ==
  \A e \in Events :
    payload[e].event_type = "command" =>
      LET rest == AfterPrefix(payload[e])
          n == Cardinality(TokenStarts(rest))
          args == payload[e].args
      IN  /\ n >= 1 => payload[e].command = NthToken(rest, 1)
          /\ Len(args) = IF n = 0 THEN 0 ELSE n - 1
          /\ \A k \in DOMAIN args :
               /\ args[k] = NthToken(rest, k + 1)
               /\ args[k] # << >>
               /\ \A i \in DOMAIN args[k] : ~IsSpace(args[k][i])
          /\ (payload[e].content = PingFooBar /\ COMMAND_PREFIX = Bang)
               => /\ payload[e].command = << "p", "i", "n", "g" >>
                  /\ args = << << "f", "o", "o" >>, << "b", "a", "r" >> >>

C6_Witness ==
  \E e \in Events :
    /\ payload[e].event_type = "command"
    /\ payload[e].content = PingFooBar
    /\ payload[e].command = << "p", "i", "n", "g" >>
    /\ Len(payload[e].args) = 2
    /\ Len(posts[e]) = 1

\* blanks between the prefix and the command, and between tokens
C6_BlankAfterPrefix ==
  \E e \in Events :
    /\ payload[e].event_type = "command"
    /\ payload[e].content = << "!", " ", "a" >>
    /\ payload[e].command = << "a" >>

LeadingSelfMention(s) ==
  IF StartsWith(s, MentionTok(SelfId)) THEN Len(MentionTok(SelfId))
  ELSE IF StartsWith(s, MentionNickTok(SelfId)) THEN Len(MentionNickTok(SelfId))
  ELSE 0

\* C8 as stated: cleaned_content is content with exactly the one leading
\* self-mention token removed, and content itself without a leading one.
C8_TokenOnly ==
  \A e \in Events :
    payload[e].event_type = "chat" =>
      payload[e].cleaned_content
        = SubSeq(payload[e].content, LeadingSelfMention(payload[e].content) + 1,
                 Len(payload[e].content))

\* C8 (amended): cleaned_content is content with one leading self-mention
\* token and the whitespace that directly follows it removed (a second
\* leading self-mention is kept); without a leading self-mention it is
\* content unchanged, also when a self-mention stands mid-message.
C8_TokenAndBlanks ==
  \A e \in Events :
    payload[e].event_type = "chat" =>
      LET c == payload[e].content
          cl == payload[e].cleaned_content
          t == LeadingSelfMention(c)
      IN  IF t = 0 THEN cl = c
          ELSE /\ Len(cl) <= Len(c) - t
               /\ cl = SubSeq(c, Len(c) - Len(cl) + 1, Len(c))
               /\ \A i \in (t + 1)..(Len(c) - Len(cl)) : IsSpace(c[i])
               /\ cl = << >> \/ ~IsSpace(cl[1])

C8_Witness ==
  \E e \in Events :
    /\ payload[e].event_type = "chat"
    /\ payload[e].content = MentionTok(SelfId) \o << " " >> \o MentionTok(SelfId)
    /\ payload[e].cleaned_content = MentionTok(SelfId)

\* a self-mention mid-message is left alone
C8_MidMessage ==
  \E e \in Events :
    /\ payload[e].event_type = "chat"
    /\ payload[e].content = << "a" >> \o MentionTok(SelfId)
    /\ payload[e].cleaned_content = payload[e].content

\* Context windows: a channel that already holds 0, 10 or MaxPrior messages,
\* a bound N below, at and above the cap, and MaxEvents chat messages in two
\* channels, so that a later message can be posted before a fetch is served.
AboveCap == ContextCap + 5

ContextShapes ==
  MsgShapes({Human}, {MentionText}, { p \in Places : p.channelId \in {ChanA, ChanB} },
            NoReply, {TRUE}, {0, 1})
  \cup MsgShapes({Human}, {CmdText}, InChanA, NoReply, {FALSE}, {1})

InitContext ==
  InitWith({Unset}, {Bang}, {0}, {DefaultTriggers}, {1, 4, AboveCap}, {TRUE},
           {MaxEvents}, {0, 10, MaxPrior})

NextContext == NextOn(ContextShapes)

SpecContext == InitContext /\ [][NextContext]_vars

CtxIds(e) == [i \in DOMAIN payload[e].context |-> payload[e].context[i].id]

LogIds(c, from, to) == [i \in 1..(to - from + 1) |-> channels[c][from + i - 1].id]

Ascending(ctx) ==
  \A i \in DOMAIN ctx : i > 1 => ctx[i - 1].timestamp <= ctx[i].timestamp

\* C10: for a chat event and N > 0 the context holds at most min(N, 20)
\* messages of the same channel, all of them preceding the triggering event
\* (never the event itself), namely the most recent ones, ascending by
\* timestamp; for N = 4 with 10 prior messages exactly the 4 most recent.
C10_PriorMessagesOnly ==
  \A e \in Events :
    (payload[e].event_type = "chat" /\ CHAT_CONTEXT_LAST_N > 0) =>
      LET ctx == payload[e].context
          c == msg[e].channelId
          prior == PosInLog(msg[e]) - 1
      IN  /\ Len(ctx) <= Min(CHAT_CONTEXT_LAST_N, 20)
          /\ Ascending(ctx)
          /\ \A i \in DOMAIN ctx : ctx[i].id # msg[e].id
          /\ ctx # << >> =>
               /\ Len(ctx) = Min(Min(CHAT_CONTEXT_LAST_N, 20), prior)
               /\ { ctx[i].id : i \in DOMAIN ctx }
                    = { channels[c][k].id : k \in (prior - Len(ctx) + 1)..prior }
          /\ (CHAT_CONTEXT_LAST_N = 4 /\ prior = 10 /\ ctx # << >>)
               => { ctx[i].id : i \in DOMAIN ctx } = {7, 8, 9, 10}

\* What the fetch without `before` yields: the most recent messages of the
\* channel at the moment the request is served, the triggering message or
\* later ones among them, ascending by timestamp, or nothing on failure.
C10_LatestAtFetch ==
  \A e \in Events :
    (payload[e].event_type = "chat" /\ CHAT_CONTEXT_LAST_N > 0) =>
      LET ctx == payload[e].context
          c == msg[e].channelId
      IN  /\ Len(ctx) <= Min(CHAT_CONTEXT_LAST_N, 20)
          /\ Ascending(ctx)
          /\ ctx # << >> =>
               \E cut \in PosInLog(msg[e])..Len(channels[c]) :
                 /\ Len(ctx) = Min(Min(CHAT_CONTEXT_LAST_N, 20), cut)
                 /\ { ctx[i].id : i \in DOMAIN ctx }
                      = { channels[c][k].id : k \in (cut - Len(ctx) + 1)..cut }

\* N = 4, ten prior messages: the context is 8, 9, 10 and the trigger, 11
C10_TriggerInContext ==
  \E e \in Events :
    /\ payload[e].event_type = "chat"
    /\ CHAT_CONTEXT_LAST_N = 4
    /\ PosInLog(msg[e]) = 11
    /\ CtxIds(e) = << 8, 10, 9, 11 >>

\* the cap: N above 20 and more than 20 messages in the channel
C10_CapReached ==
  \E e \in Events :
    /\ payload[e].event_type = "chat"
    /\ CHAT_CONTEXT_LAST_N > ContextCap
    /\ Len(channels[msg[e].channelId]) > ContextCap
    /\ Len(payload[e].context) = ContextCap

\* ------------------------------------------------------ identity (50-75)
\* One message, enrichment switched on or off, guild channel or direct
\* message, member cached or not, the member fetch answering or throwing.
IdentityShapes ==
  MsgShapes({Human, OtherHuman}, {CmdText, MentionText, PlainText},
            { p \in Places : p.channelId \in {ChanA, ChanDM} }, NoReply, BOOLEAN, {1})

InitIdentity ==
  InitWith({Unset}, {Bang}, {0}, {DefaultTriggers}, {0, 1}, BOOLEAN, {1}, {0, 1})

NextIdentity == NextOn(IdentityShapes)

SpecIdentity == InitIdentity /\ [][NextIdentity]_vars

IdentityFields ==
  {"user_id", "username", "global_name", "discriminator", "is_bot",
   "display_name", "roles"}

\* the event got past classification and its getIdentity call has returned
IdentityResolved(e) ==
  /\ pc[e] # "idle"
  /\ outcome[e] # "Ignore"
  /\ "identity" \notin pending[e]

HasBaseFields(e) ==
  /\ DOMAIN identity[e] = IdentityFields
  /\ identity[e].user_id = msg[e].author.id
  /\ identity[e].username = msg[e].author.username
  /\ identity[e].global_name = msg[e].author.globalName
  /\ identity[e].discriminator = msg[e].author.discriminator
  /\ identity[e].is_bot = msg[e].author.bot

NoProfile(e) == identity[e].display_name = Null /\ identity[e].roles = << >>

C11_State ==
  \A e \in Events :
    IdentityResolved(e) =>
      /\ HasBaseFields(e)
      /\ (~FETCH_MEMBER_PROFILE \/ msg[e].guildId = Null) => NoProfile(e)
      /\ pending[e] = {} =>
           /\ payload[e] # NoPayload
           /\ payload[e].identity = identity[e]
           /\ posts[e] # << >>

C11_Step ==
  \A e \in Events :
    MemberFetchDone(e, FALSE) =>
      /\ HasBaseFields(e)'
      /\ NoProfile(e)'
      /\ outcome'[e] = outcome[e]
      /\ pending'[e] = {} => (payload'[e].identity = identity'[e] /\ Len(posts'[e]) = 1)

\* C11: getIdentity never raises. With enrichment off, without a guild, or
\* when the member fetch throws, the identity carries the author's base
\* fields, display_name null and roles empty (all seven fields present), and
\* the payload is built with it and posted.
C11_IdentityFallback == [] C11_State /\ [][C11_Step]_vars

\* a guild command whose member fetch failed, posted with the fallback
C11_Witness ==
  \E e \in Events :
    /\ IdentityResolved(e)
    /\ FETCH_MEMBER_PROFILE
    /\ msg[e].guildId # Null
    /\ ~msg[e].memberCached
    /\ identity[e] = [user_id |-> HumanId, username |-> << "h" >>, global_name |-> Null,
                      discriminator |-> << "0" >>, is_bot |-> FALSE,
                      display_name |-> Null, roles |-> << >>]
    /\ payload[e].event_type = "command"
    /\ Len(posts[e]) = 1

\* enrichment switched off in a guild: no fetch, fallback at once
C11_EnrichmentOff ==
  \E e \in Events :
    /\ IdentityResolved(e)
    /\ ~FETCH_MEMBER_PROFILE
    /\ msg[e].guildId # Null
    /\ payload[e].event_type = "chat"
    /\ NoProfile(e)
    /\ Len(posts[e]) = 1

\* ------------------------------------------- handler exceptions (226-228)
\* MaxEvents concurrent pipelines; a message may be well-formed or make the
\* handler throw, at classification or while the payload is built (after the
\* awaited fetches).
FaultShapes ==
  FlowShapes
  \cup Malformed(MsgShapes({Human}, {CmdText}, InChanA, NoReply, {FALSE}, {1}), Faults)
  \cup Malformed(MsgShapes({Human}, {PlainText}, InDM, NoReply, {FALSE}, {1}),
                 {"attachments"})

InitFault ==
  InitWith({Unset}, {Bang}, {0}, {DefaultTriggers}, {1}, {TRUE}, {MaxEvents}, {0})

NextFault == NextOn(FaultShapes)

SpecFault == InitFault /\ [][NextFault]_vars

TaskOf(f) ==
  << msg[f], pc[f], pending[f], identity[f], context[f], payload[f], attempt[f],
     lastErr[f], posts[f], waits[f], outcome[f] >>

Threw(e) ==
  /\ pc[e] # "idle"
  /\ \/ msg[e].fault = "author"
     \/ msg[e].fault = "attachments" /\ outcome[e] # "Ignore" /\ pending[e] = {}

\* what a running pipeline can do next does not depend on any other one
CanGoOn(f) ==
  /\ (pc[f] = "idle" /\ f <= quota /\ \A g \in Events : g < f => pc[g] # "idle")
       => ENABLED MessageCreate(f, FaultShapes)
  /\ (pc[f] = "await" /\ "identity" \in pending[f])
       => ENABLED MemberFetchDone(f, TRUE) /\ ENABLED MemberFetchDone(f, FALSE)
  /\ (pc[f] = "await" /\ "context" \in pending[f])
       => ENABLED HistoryFetchDone(f, TRUE) /\ ENABLED HistoryFetchDone(f, FALSE)
  /\ pc[f] = "posting" => ENABLED PostOk(f) /\ ENABLED PostFails(f, "non2xx")
  /\ pc[f] = "backoff" => ENABLED BackoffElapsed(f)

C12_State ==
  /\ \A e \in Events :
       /\ Threw(e) <=> outcome[e] = "HandlerError"
       /\ outcome[e] = "HandlerError" =>
            pc[e] = "done" /\ posts[e] = << >> /\ payload[e] = NoPayload
  /\ (~exited /\ clientUser # Null) => \A f \in Events : CanGoOn(f)

C12_Step ==
  \A e \in Events :
    (outcome[e] # "HandlerError" /\ outcome'[e] = "HandlerError") =>
      /\ exited' = exited
      /\ closed' = closed
      /\ clientUser' = clientUser
      /\ cfgVars' = cfgVars
      /\ \A f \in Events \ {e} : TaskOf(f)' = TaskOf(f)

\* C12: an exception thrown while an event is handled ends in the handler's
\* catch: that event is dropped without a POST, the process does not exit,
\* the other pipelines are left exactly as they were and can all take their
\* next step, and a later message is still handled.
C12_ExceptionsContained == [] C12_State /\ [][C12_Step]_vars

\* the first message threw while its payload was built, the second one,
\* posted while the first was still awaiting its fetch, was delivered
C12_Witness ==
  \E e, f \in Events :
    /\ e < f
    /\ outcome[e] = "HandlerError"
    /\ msg[e].fault = "attachments"
    /\ outcome[f] = "Delivered"
    /\ ~exited

\* a message that threw at classification, and a later one handled after it
C12_LaterHandled ==
  \E e, f \in Events :
    /\ e < f
    /\ outcome[e] = "HandlerError"
    /\ msg[e].fault = "author"
    /\ pc[f] = "posting"

\* ---------------------------------------------------- shutdown (231-238)
C13_State ==
  IF exited THEN closed = << "health server", "discord client" >> ELSE closed = << >>

C13_Step ==
  /\ exited => (taskVars' = taskVars /\ exited')
  /\ (~exited /\ exited') => taskVars' = taskVars

\* C13: shutdown closes the health listener and the Discord connection and
\* exits; in-flight deliveries are abandoned: neither the shutdown step nor
\* any later step issues a POST or moves a pipeline, one waiting in a
\* backoff delay included.
C13_ShutdownAbandons == [] C13_State /\ [][C13_Step]_vars

\* exit while a pipeline with a retry left waits in its backoff delay
C13_Witness ==
  /\ exited
  /\ \E e \in Events :
       /\ pc[e] = "backoff"
       /\ attempt[e] < MAX_RETRIES
       /\ Len(posts[e]) = 1

\* exit while a POST is in flight
C13_PostInFlight ==
  exited /\ \E e \in Events : pc[e] = "posting"

\* ------------------------------------------------- ordering of deliveries
\* message f originated after message e
Later(e, f) == pc[e] # "idle" /\ pc[f] # "idle" /\ msg[e].id < msg[f].id

\* C14: no ordering between deliveries of distinct events. Whatever state an
\* earlier message's pipeline is in (awaiting a fetch, posting, in backoff),
\* a later message's POST can be answered and end as Delivered; nothing
\* makes it wait for the earlier one.
C14_NoOrdering ==
  \A e, f \in Events :
    (~exited /\ Later(e, f) /\ pc[f] = "posting") => ENABLED PostOk(f)

\* the later message of the same author in the same channel is delivered
\* while the earlier one, whose first attempt failed, waits in backoff
C14_Witness ==
  \E e, f \in Events :
    /\ Later(e, f)
    /\ msg[e].channelId = msg[f].channelId
    /\ msg[e].author = msg[f].author
    /\ pc[e] = "backoff"
    /\ Len(posts[e]) = 1
    /\ posts[e][1].status = "failed"
    /\ attempt[e] < MAX_RETRIES
    /\ outcome[f] = "Delivered"

\* ---------------------------------------------- termination of delivery
\* The relay running without a shutdown signal.
NextLive ==
  \/ ClientReady
  \/ \E e \in Events : MessageCreate(e, RetryShapes)
  \/ \E e \in Events, ok \in BOOLEAN : MemberFetchDone(e, ok)
  \/ \E e \in Events, ok \in BOOLEAN : HistoryFetchDone(e, ok)
  \/ \E e \in Events : PostOk(e)
  \/ \E e \in Events, kind \in FailureKinds : PostFails(e, kind)
  \/ \E e \in Events : BackoffElapsed(e)

\* Every axios.post settles (a response, a network error, or the 10 s
\* timeout of line 138), and every setTimeout of line 144 fires.
Fairness ==
  \A e \in Events :
    /\ WF_vars(PostOk(e) \/ \E kind \in FailureKinds : PostFails(e, kind))
    /\ WF_vars(BackoffElapsed(e))

SpecLive == InitRetry /\ [][NextLive]_vars /\ Fairness

Attempting(e) == pc[e] \in {"posting", "backoff"}

Terminal(e) == pc[e] = "done" /\ outcome[e] \in {"Delivered", "PermanentFailure"}

C15_Final ==
  \A e \in Events : Terminal(e) => (pc'[e] = pc[e] /\ outcome'[e] = outcome[e])

\* C15: every delivery sequence that starts ends as Delivered or as
\* PermanentFailure, and once it has ended its outcome never changes.
C15_Terminates ==
  /\ \A e \in Events : Attempting(e) ~> Terminal(e)
  /\ [][C15_Final]_vars

\* a sequence that went through every attempt of the largest budget
C15_Witness ==
  \E e \in Events :
    /\ Terminal(e)
    /\ outcome[e] = "PermanentFailure"
    /\ MAX_RETRIES = MaxRetriesBound
    /\ Len(posts[e]) = MaxRetriesBound + 1

\* a sequence that ended as Delivered on a retry
C15_DeliveredOnRetry ==
  \E e \in Events :
    Terminal(e) /\ outcome[e] = "Delivered" /\ Len(posts[e]) >= 2

\* --------------------------------------------------- delays and attempts
FailedPosts(e) == { i \in DOMAIN posts[e] : posts[e][i].status = "failed" }

\* C16: backoff delays occur only between two consecutive attempts: a
\* finished delivery sequence has one delay less than it has attempts, so
\* the last failed attempt is followed by no delay.
C16_DelaysBetweenOnly ==
  \A e \in Events : Terminal(e) => Len(waits[e]) = Len(posts[e]) - 1

\* What the loop does: the catch block waits after every failed attempt, the
\* last one included, so a sequence has as many delays as failed attempts.
C16_DelayAfterEveryFailure ==
  \A e \in Events :
    /\ Len(waits[e]) = Cardinality(FailedPosts(e))
    /\ outcome[e] = "PermanentFailure" => Len(waits[e]) = Len(posts[e])
    /\ outcome[e] = "Delivered" => Len(waits[e]) = Len(posts[e]) - 1

\* MAX_RETRIES = 0: one attempt, and one delay of 2000 ms after it
C16_FinalDelay ==
  \E e \in Events :
    /\ MAX_RETRIES = 0
    /\ outcome[e] = "PermanentFailure"
    /\ Len(posts[e]) = 1
    /\ waits[e] = << 2000 >>

\* ------------------------------------------------ order of the rules
InAllowList(m) ==
  ALLOWED_CHANNELS = << >>
  \/ \E i \in DOMAIN ALLOWED_CHANNELS : ALLOWED_CHANNELS[i] = m.channelId

\* C17: the rules apply in the order bot, allow-list, command prefix, chat
\* triggers. A non-bot message in an allowed channel that starts with the
\* prefix is a command whatever the trigger set and whether or not it
\* mentions, replies to or directly messages the relay: it never awaits a
\* history fetch and its payload is a command payload, never a chat one. A
\* bot's or a disallowed channel's command is ignored.
C17_CommandFirst ==
  \A e \in Events :
    (Arrived(e) /\ StartsWith(msg[e].content, COMMAND_PREFIX)) =>
      IF msg[e].author.bot \/ ~InAllowList(msg[e])
      THEN Ignored(e)
      ELSE /\ outcome[e] # "Ignore"
           /\ "context" \notin pending[e]
           /\ context[e] = << >>
           /\ payload[e].event_type # "chat"
           /\ pending[e] = {} =>
                (payload[e].event_type = "command" /\ Len(posts[e]) >= 1)

\* every trigger configured, a direct message that replies to the relay
\* with the reply ping (so it mentions it) and starts with the prefix
C17_Witness ==
  \E e \in Events :
    /\ Arrived(e)
    /\ CHAT_TRIGGERS = AllTriggers
    /\ msg[e].guildId = Null
    /\ msg[e].repliedUser = SelfId
    /\ SelfId \in msg[e].mentionsUsers
    /\ StartsWith(msg[e].content, COMMAND_PREFIX)
    /\ payload[e].event_type = "command"
    /\ Len(posts[e]) = 1

\* the empty trigger set: commands are relayed all the same
C17_NoTriggers ==
  \E e \in Events :
    /\ CHAT_TRIGGERS = {}
    /\ payload[e].event_type = "command"
    /\ Len(posts[e]) = 1

\* ------------------------------------------- history fetch failure (129)
C18_State ==
  \A e \in Events :
    /\ pc[e] = "await" => (outcome[e] = "None" /\ pending[e] # {})
    /\ payload[e].event_type = "chat" =>
         (payload[e].context = context[e] /\ Len(posts[e]) >= 1)

C18_Step ==
  \A e \in Events :
    HistoryFetchDone(e, FALSE) =>
      /\ context'[e] = << >>
      /\ outcome'[e] = "None"
      /\ identity'[e] = identity[e]
      /\ IF "identity" \in pending[e]
         THEN pc'[e] = "await" /\ pending'[e] = {"identity"}
         ELSE /\ pc'[e] = "posting"
              /\ payload'[e].event_type = "chat"
              /\ payload'[e].context = << >>
              /\ posts'[e] = << Request(payload'[e]) >>

\* C18: when the history fetch of a chat event fails, buildContext yields
\* the empty sequence: the event is not dropped, and its chat payload is
\* built with context = [] and posted, at once if the identity is there,
\* otherwise as soon as the member fetch has answered or failed.
C18_HistoryFailure == [] C18_State /\ [][C18_Step]_vars

\* history failed (a successful fetch would hold the message itself), the
\* concurrent member fetch succeeded
C18_Witness ==
  \E e \in Events :
    /\ payload[e].event_type = "chat"
    /\ CHAT_CONTEXT_LAST_N > 0
    /\ payload[e].context = << >>
    /\ ~msg[e].memberCached /\ FETCH_MEMBER_PROFILE /\ msg[e].guildId # Null
    /\ payload[e].identity.display_name # Null
    /\ Len(posts[e]) = 1

\* history and member fetch both failed
C18_BothFailed ==
  \E e \in Events :
    /\ payload[e].event_type = "chat"
    /\ CHAT_CONTEXT_LAST_N > 0
    /\ payload[e].context = << >>
    /\ ~msg[e].memberCached /\ FETCH_MEMBER_PROFILE /\ msg[e].guildId # Null
    /\ msg[e].author = Human
    /\ payload[e].identity.display_name = Null
    /\ Len(posts[e]) = 1

\* ------------------------------------------------ what an attempt sends
\* a request as the endpoint sees it: everything but our record of how it ended
Wire(req) == [url |-> req.url, data |-> req.data, headers |-> req.headers]

C19_State ==
  \A e \in Events :
    \A i \in DOMAIN posts[e] :
      /\ DOMAIN posts[e][i] = {"url", "data", "headers", "status"}
      /\ posts[e][i].data = payload[e]
      /\ posts[e][i].headers = [secret |-> SHARED_SECRET, contentType |-> "application/json"]
      /\ Wire(posts[e][i]) = Wire(posts[e][1])

C19_Step ==
  \A e \in Events :
    /\ payload[e] # NoPayload => payload'[e] = payload[e]
    /\ \A i \in DOMAIN posts[e] :
         i \in DOMAIN posts'[e] /\ Wire(posts'[e][i]) = Wire(posts[e][i])

\* C19: the payload is built once, before the first attempt, and never
\* changes; every attempt of a delivery sequence sends that payload with the
\* shared-secret header and the JSON content type and nothing else, so a
\* retry is the same request as the first attempt.
C19_SameRequest == [] C19_State /\ [][C19_Step]_vars

\* three attempts for one payload, the third answered 2xx
C19_Witness ==
  \E e \in Events :
    /\ Len(posts[e]) = 3
    /\ posts[e][3].status = "2xx"
    /\ posts[e][1].data = payload[e]
    /\ posts[e][3].data = payload[e]

\* ------------------------------------------- independence of pipelines
\* the classification as the message and the configuration alone give it
OwnClass(e) ==
  IF msg[e].author.bot \/ ~InAllowList(msg[e]) THEN "Ignore"
  ELSE IF StartsWith(msg[e].content, COMMAND_PREFIX) THEN "command"
  ELSE IF TriggerHolds(msg[e]) THEN "chat"
  ELSE "Ignore"

AllPostsFailed(e) == \A i \in DOMAIN posts[e] : posts[e][i].status = "failed"

\* everything about pipeline e follows from its own message, the
\* configuration, its own fetch results and the answers to its own POSTs
C20_State ==
  \A e \in Events :
    pc[e] # "idle" =>
      /\ (outcome[e] = "Ignore") <=> (OwnClass(e) = "Ignore")
      /\ payload[e] # NoPayload =>
           /\ payload[e].event_type = OwnClass(e)
           /\ payload[e].message_id = msg[e].id
           /\ payload[e].identity = identity[e]
           /\ payload[e].event_type = "chat" => payload[e].context = context[e]
      /\ attempt[e] = Len(waits[e]) - (IF pc[e] = "backoff" THEN 1 ELSE 0)
      /\ Len(waits[e]) = Cardinality(FailedPosts(e))
      /\ pc[e] = "posting" => Len(posts[e]) = attempt[e] + 1
      /\ (outcome[e] = "Delivered") <=>
           (posts[e] # << >> /\ posts[e][Len(posts[e])].status = "2xx")
      /\ (outcome[e] = "PermanentFailure") <=>
           (pc[e] = "done" /\ Len(posts[e]) = MAX_RETRIES + 1 /\ AllPostsFailed(e))

\* a step belongs to at most one pipeline and leaves every other one, the
\* configuration and the self-identity alone
C20_Step ==
  /\ cfgVars' = cfgVars
  /\ \A e, f \in Events :
       (e # f /\ TaskOf(e)' # TaskOf(e)) => TaskOf(f)' = TaskOf(f)
  /\ (\E e \in Events : TaskOf(e)' # TaskOf(e)) => clientUser' = clientUser

\* C20: concurrent pipelines share no mutable state. Under every
\* interleaving each event's classification, payload, number of attempts
\* and outcome follow from that event, the configuration and the answers to
\* its own fetches and POSTs, and no step of one pipeline (a retry, a
\* permanent failure) changes anything of another.
C20_NoSharedState == [] C20_State /\ [][C20_Step]_vars

\* two pipelines in backoff at once, one after its second failed attempt,
\* the other after its first
C20_Witness ==
  \E e, f \in Events :
    /\ e # f
    /\ pc[e] = "backoff" /\ Len(posts[e]) = 2 /\ attempt[e] = 1
    /\ pc[f] = "backoff" /\ Len(posts[f]) = 1 /\ attempt[f] = 0

\* one pipeline failed for good while the other one was delivered at its
\* first attempt
C20_FailureBesideDelivery ==
  \E e, f \in Events :
    /\ e < f
    /\ outcome[e] = "PermanentFailure" /\ Len(posts[e]) = 2
    /\ outcome[f] = "Delivered" /\ Len(posts[f]) = 1 /\ attempt[f] = 0

\* ------------------------------------------------- one attempt at a time
InFlight(e) == { i \in DOMAIN posts[e] : posts[e][i].status = "inflight" }

\* only the latest request of an event can be unanswered, and only while
\* the loop awaits it; every earlier one has failed
C21_State ==
  \A e \in Events :
    /\ Cardinality(InFlight(e)) <= 1
    /\ InFlight(e) # {} <=> pc[e] = "posting"
    /\ InFlight(e) \subseteq { Len(posts[e]) }
    /\ \A i \in DOMAIN posts[e] : i < Len(posts[e]) => posts[e][i].status = "failed"

\* a further attempt is issued only by the step that ends a backoff delay,
\* after the previous attempt failed and its delay was taken
C21_Step ==
  \A e \in Events :
    (Len(posts'[e]) > Len(posts[e]) /\ posts[e] # << >>) =>
      /\ Len(posts'[e]) = Len(posts[e]) + 1
      /\ pc[e] = "backoff"
      /\ InFlight(e) = {}
      /\ posts[e][Len(posts[e])].status = "failed"
      /\ Len(waits[e]) = Len(posts[e])
      /\ waits[e][Len(waits[e])] = Backoff(Len(posts[e]) - 1)
      /\ waits'[e] = waits[e]

\* C21: the attempts of one delivery sequence are strictly sequential: at
\* most one POST of an event is in flight at any time, and attempt k+1 is
\* issued only after attempt k has failed and its backoff delay has elapsed.
C21_Sequential == [] C21_State /\ [][C21_Step]_vars

\* the third attempt in flight, two failed ones and their two delays behind it
C21_Witness ==
  \E e \in Events :
    /\ Len(posts[e]) = 3
    /\ InFlight(e) = {3}
    /\ posts[e][1].status = "failed"
    /\ posts[e][2].status = "failed"
    /\ waits[e] = << 2000, 4000 >>

\* ------------------------------------------- direct-message indicators
DmSegment == << "d", "m", ":" >>

C22_Agree(p) ==
  /\ p.is_dm \in BOOLEAN
  /\ p.is_dm <=> p.guild_id = Null
  /\ p.guild_id = Null <=> StartsWith(p.user_key, DmSegment)
  /\ p.guild_id = Null <=> StartsWith(p.convo_key, DmSegment)

\* C22: in every chat payload is_dm is true exactly when guild_id is null,
\* exactly when user_key and convo_key begin with the segment "dm"; and with
\* DM among the triggers every non-bot, allowed-channel, non-command message
\* without a guild is relayed as chat.
C22_DmIndicators ==
  \A e \in Events :
    /\ payload[e].event_type = "chat" => C22_Agree(payload[e])
    /\ (/\ Arrived(e)
        /\ "DM" \in CHAT_TRIGGERS
        /\ ~msg[e].author.bot
        /\ InAllowList(msg[e])
        /\ ~StartsWith(msg[e].content, COMMAND_PREFIX)
        /\ msg[e].guildId = Null)
         => (Relayed(e, "chat") /\ (payload[e] # NoPayload => payload[e].is_dm))

\* DM the only trigger: a plain direct message relayed with all three
\* indicators saying "direct message"
C22_Witness ==
  \E e \in Events :
    /\ CHAT_TRIGGERS = {"DM"}
    /\ payload[e].event_type = "chat"
    /\ payload[e].content = PlainText
    /\ payload[e].is_dm
    /\ payload[e].guild_id = Null
    /\ payload[e].user_key = << "d", "m", ":", "8" >>
    /\ payload[e].convo_key = << "d", "m", ":", "4", "4", ":", "8" >>
    /\ Len(posts[e]) = 1

\* a guild chat payload: none of the indicators says "direct message"
C22_GuildChat ==
  \E e \in Events :
    /\ payload[e].event_type = "chat"
    /\ ~payload[e].is_dm
    /\ payload[e].guild_id = GuildId
    /\ payload[e].user_key = << "5", ":", "8" >>
    /\ payload[e].in_thread

\* ------------------------------------------------------- the bare prefix
\* the text is the prefix followed by nothing but whitespace (or by nothing)
BarePrefix(s) ==
  /\ StartsWith(s, COMMAND_PREFIX)
  /\ \A i \in (Len(COMMAND_PREFIX) + 1)..Len(s) : s[i] \in {" ", "\n"}

\* C23: a non-bot, allowed-channel message that is the command prefix alone,
\* or the prefix followed only by whitespace, is a command all the same and
\* is posted with command = "" and args = []; a command payload has the
\* empty command in no other case.
C23_BarePrefix ==
  \A e \in Events :
    (/\ Arrived(e)
     /\ ~msg[e].author.bot
     /\ InAllowList(msg[e])
     /\ StartsWith(msg[e].content, COMMAND_PREFIX)
     /\ pending[e] = {})
      => /\ payload[e].event_type = "command"
         /\ Len(posts[e]) >= 1
         /\ posts[e][1].data = payload[e]
         /\ IF BarePrefix(msg[e].content)
            THEN payload[e].command = << >> /\ payload[e].args = << >>
            ELSE payload[e].command # << >>

\* the prefix alone
C23_Witness ==
  \E e \in Events :
    /\ COMMAND_PREFIX = << "!" >>
    /\ payload[e].event_type = "command"
    /\ payload[e].content = << "!" >>
    /\ payload[e].command = << >>
    /\ payload[e].args = << >>
    /\ Len(posts[e]) = 1

\* a two-character prefix followed by a line break
C23_PrefixAndBlanks ==
  \E e \in Events :
    /\ COMMAND_PREFIX = << "!", "!" >>
    /\ payload[e].event_type = "command"
    /\ payload[e].content = << "!", "!", "\n" >>
    /\ payload[e].command = << >>
    /\ payload[e].args = << >>
    /\ Len(posts[e]) = 1
====
